---------------------------- MODULE Spec2Model ----------------------------
(***************************************************************************)
(* Model of the manifesto reader's search engine (lib/search/searchEngine, *)
(* kept in src/lib/tableOfContents.ts) and of the useSearch hook           *)
(* (src/unnamed/part_008).                                                 *)
(*                                                                         *)
(* Strings are sequences of UTF-16 code units; offsets are 0-based as in   *)
(* JavaScript and converted to TLA+'s 1-based sequences inside the string  *)
(* helpers only.                                                           *)
(***************************************************************************)
EXTENDS Integers, Sequences, FiniteSets, TLC

(***************************************************************************)
(* Bounds of the model.                                                    *)
(***************************************************************************)
NumPages == 2
MaxTotalLen == 3
MaxQueryLen == 2

(***************************************************************************)
(* Code units that occur in queries and page texts.  "Idot" stands for     *)
(* U+0130 (capital I with dot above), the code unit whose lower-case form  *)
(* is two code units long: "i" followed by U+0307 ("dot").                 *)
(***************************************************************************)
Chars == {"a", "A", " ", "Idot"}

Pages == 1..NumPages

RECURSIVE StringsUpTo(_)
StringsUpTo(n) ==
  IF n = 0 THEN {<<>>}
  ELSE LET shorter == StringsUpTo(n - 1)
       IN shorter \cup {Append(s, c) : s \in {t \in shorter : Len(t) = n - 1}, c \in Chars}

Queries == StringsUpTo(MaxQueryLen)

\* Page-text maps over the key set D whose texts have at most budget code
\* units altogether.
RECURSIVE MapsWithin(_, _)
MapsWithin(D, budget) ==
  IF D = {} THEN {<<>>}
  ELSE LET p == CHOOSE x \in D : TRUE
       IN UNION {{m @@ (p :> t) : m \in MapsWithin(D \ {p}, budget - Len(t))} :
                   t \in StringsUpTo(budget)}

\* Page-text maps handed to search(): any key set, any texts, bounded size.
PageTextMaps == UNION {MapsWithin(D, MaxTotalLen) : D \in SUBSET Pages}

(***************************************************************************)
(* JavaScript string primitives used by the source.                        *)
(***************************************************************************)
Min(S) == CHOOSE x \in S : \A y \in S : x <= y
Max(S) == CHOOSE x \in S : \A y \in S : x >= y
Clamp(i, lo, hi) == IF i < lo THEN lo ELSE IF i > hi THEN hi ELSE i

\* String.prototype.toLowerCase, per code unit (locale-independent mapping)
LowerChar(c) ==
  IF c = "A" THEN <<"a">>
  ELSE IF c = "Idot" THEN <<"i", "dot">>
  ELSE <<c>>

RECURSIVE ToLowerCase(_)
ToLowerCase(s) ==
  IF s = <<>> THEN <<>> ELSE LowerChar(Head(s)) \o ToLowerCase(Tail(s))

\* white space and line terminators; "LF" and "CR" stand for \n and \r
IsWhiteSpace(c) == c \in {" ", "LF", "CR"}

\* String.prototype.trim
RECURSIVE TrimStart(_)
TrimStart(s) ==
  IF s # <<>> /\ IsWhiteSpace(Head(s)) THEN TrimStart(Tail(s)) ELSE s

RECURSIVE TrimEnd(_)
TrimEnd(s) ==
  IF s # <<>> /\ IsWhiteSpace(s[Len(s)]) THEN TrimEnd(SubSeq(s, 1, Len(s) - 1)) ELSE s

Trim(s) == TrimEnd(TrimStart(s))

\* String.prototype.substring(a, b): arguments clamped to [0, length], swapped if a > b
Substring(s, a, b) ==
  LET ca == Clamp(a, 0, Len(s))
      cb == Clamp(b, 0, Len(s))
      lo == IF ca <= cb THEN ca ELSE cb
      hi == IF ca <= cb THEN cb ELSE ca
  IN SubSeq(s, lo + 1, hi)

\* String.prototype.indexOf(searchString, position): first occurrence at or
\* after position, -1 when there is none
IndexOf(s, searchString, position) ==
  LET from == Clamp(position, 0, Len(s))
      found == {i \in from..(Len(s) - Len(searchString)) :
                  SubSeq(s, i + 1, i + Len(searchString)) = searchString}
  IN IF found = {} THEN -1 ELSE Min(found)

(***************************************************************************)
(* search(query, pageTexts)                                                *)
(***************************************************************************)
\* Array.from(pageTexts.keys()).sort((a, b) => a - b)
RECURSIVE SortAscending(_)
SortAscending(S) ==
  IF S = {} THEN <<>> ELSE <<Min(S)>> \o SortAscending(S \ {Min(S)})

RECURSIVE SortDescending(_)
SortDescending(S) ==
  IF S = {} THEN <<>> ELSE <<Max(S)>> \o SortDescending(S \ {Max(S)})

sortedPages_unsorted(pageTexts) == SortDescending(DOMAIN pageTexts)

sortedPages(pageTexts) == SortAscending(DOMAIN pageTexts)

\* template literal `${pageNumber}-${matchIndexOnPage}`
MatchId(pageNumber, matchIndexOnPage) == <<pageNumber, "-", matchIndexOnPage>>

\* the object pushed onto matches
SearchMatch(pageNumber, text, query, matchIndexOnPage, globalIndex, startOffset) ==
  [id |-> MatchId(pageNumber, matchIndexOnPage),
   pageNumber |-> pageNumber,
   matchIndexOnPage |-> matchIndexOnPage,
   globalIndex |-> globalIndex,
   startOffset |-> startOffset,
   endOffset |-> startOffset + Len(query),
   matchedText |-> Substring(text, startOffset, startOffset + Len(query)),
   isActive |-> (globalIndex = 0)]

advance_byOne(startOffset, query) == startOffset + 1

advance_skipOne(startOffset, query) == startOffset + Len(query) + 1

\* startOffset += query.length
advance(startOffset, query) == startOffset + Len(query)

\* the while loop over one page; yields the matches pushed for this page
RECURSIVE scanPage(_, _, _, _, _, _)
scanPage(pageNumber, text, query, position, matchIndexOnPage, globalIndex) ==
  LET startOffset == IndexOf(ToLowerCase(text), ToLowerCase(query), position)
  IN IF startOffset = -1 THEN <<>>
     ELSE <<SearchMatch(pageNumber, text, query, matchIndexOnPage, globalIndex, startOffset)>>
          \o scanPage(pageNumber, text, query, advance(startOffset, query),
                      matchIndexOnPage + 1, globalIndex + 1)

\* the for loop over sortedPages; globalIndex carries over from page to page
RECURSIVE scanPages(_, _, _, _)
scanPages(pageList, query, pageTexts, globalIndex) ==
  IF pageList = <<>> THEN <<>>
  ELSE LET pushed == scanPage(Head(pageList), pageTexts[Head(pageList)], query, 0, 0, globalIndex)
       IN pushed \o scanPages(Tail(pageList), query, pageTexts, globalIndex + Len(pushed))

search(query, pageTexts) ==
  IF Trim(query) = <<>> THEN <<>>
  ELSE scanPages(sortedPages(pageTexts), query, pageTexts, 0)

(***************************************************************************)
(* useSearch hook: pure parts                                              *)
(***************************************************************************)
\* results: null
NullResults ==
  [isNull |-> TRUE, query |-> <<>>, matches |-> <<>>, totalMatches |-> 0,
   currentMatchIndex |-> -1]

\* useState initial value, also the value closeSearch installs
InitialSearchState ==
  [isOpen |-> FALSE, query |-> <<>>, results |-> NullResults, isSearching |-> FALSE]

isValidSearchQuery_noTrim(query) == Len(query) > 0

isValidSearchQuery(query) == Len(Trim(query)) > 0

firstIndex_alwaysZero(found) == 0

\* matches.length > 0 ? 0 : -1
firstIndex(found) == IF Len(found) > 0 THEN 0 ELSE -1

nextIndex_noWrap(results) == results.currentMatchIndex + 1

\* (currentMatchIndex + 1) % totalMatches
nextIndex(results) == (results.currentMatchIndex + 1) % results.totalMatches

\* (currentMatchIndex - 1 + totalMatches) % totalMatches
prevIndex(results) ==
  (results.currentMatchIndex - 1 + results.totalMatches) % results.totalMatches

\* getNextMatchIndex / getPreviousMatchIndex of the search library
getNextMatchIndex(ms, currentIndex) ==
  IF Len(ms) = 0 THEN -1 ELSE (currentIndex + 1) % Len(ms)

getPreviousMatchIndex(ms, currentIndex) ==
  IF Len(ms) = 0 THEN -1 ELSE (currentIndex - 1 + Len(ms)) % Len(ms)

\* the state updaters performSearch queues, applied in order to prev;
\* query and texts are the values captured by the callback
performSearchUpdate(prev, query, texts) ==
  IF ~isValidSearchQuery(query)
  THEN [prev EXCEPT !.results = NullResults]
  ELSE LET searching == [prev EXCEPT !.isSearching = TRUE]
           found == search(query, texts)
       IN [searching EXCEPT
             !.results = [isNull |-> FALSE,
                          query |-> searching.query,
                          matches |-> found,
                          totalMatches |-> Len(found),
                          currentMatchIndex |-> firstIndex(found)],
             !.isSearching = FALSE]

\* the updater of nextMatch / previousMatch: prev.results ? {...prev.results,
\* currentMatchIndex: index} : null
setIndexUpdate(prev, index) ==
  IF prev.results.isNull THEN prev
  ELSE [prev EXCEPT !.results.currentMatchIndex = index]

\* nextMatch / previousMatch as a whole: early return on the captured
\* results (snap), index computed from snap, updater applied to prev
nextMatchUpdate(prev, snap) ==
  IF snap.results.isNull \/ Len(snap.results.matches) = 0 THEN prev
  ELSE setIndexUpdate(prev, nextIndex(snap.results))

previousMatchUpdate(prev, snap) ==
  IF snap.results.isNull \/ Len(snap.results.matches) = 0 THEN prev
  ELSE setIndexUpdate(prev, prevIndex(snap.results))

openSearchUpdate(prev) == [prev EXCEPT !.isOpen = TRUE]

setQueryUpdate(prev, query) == [prev EXCEPT !.query = query]

(***************************************************************************)
(* State                                                                   *)
(***************************************************************************)
VARIABLES
  pageTexts,      \* Map<number, string> passed to search() / useSearch()
  argQuery,       \* query argument of a direct search() call
  matches,        \* array returned by the direct search() call
  returned,       \* TRUE once the direct search() call has returned
  searchState,    \* the hook's state with every queued updater applied
  closure,        \* the searchState captured by the callbacks of the last render
  timer,          \* the pending debounce timeout and the query it captured
  lastOp,         \* name of the operation that ran last
  visiblePages,   \* usePageVisibility: number[] state
  activePage,     \* usePageVisibility: number state
  registered,     \* elements held by pageElementsRef and observed
  lastEntry,      \* the IntersectionObserverEntry the callback handled last
  lastRatio,      \* per page, the ratio of its latest intersecting entry
  sincePositive,  \* pages with an entry of ratio > 0 since their last exit
  pdf,            \* the PDFDocumentProxy handed to extractAllPageTexts
  extraction,     \* outcome of the extractAllPageTexts call
  url,            \* usePdfDocument: the url argument of the latest render
  document,       \* usePdfDocument: PDFDocument state
  pdfProxy,       \* usePdfDocument: PDFDocumentProxy | null state
  docPageTexts,   \* usePdfDocument: pageTexts state
  loads,          \* loadPdf() calls still in flight
  started,        \* number of loadPdf() calls made so far
  callArgs,       \* arguments of a direct call of a utility function
  callResult      \* what that call returned

searchVars == <<argQuery, matches, returned>>
hookVars == <<searchState, closure, timer, lastOp>>
visibilityVars ==
  <<visiblePages, activePage, registered, lastEntry, lastRatio, sincePositive>>
extractionVars == <<pdf, extraction>>
documentVars == <<url, document, pdfProxy, docPageTexts, loads, started>>
callVars == <<callArgs, callResult>>

vars ==
  <<pageTexts, searchVars, hookVars, visibilityVars, extractionVars, documentVars,
    callVars>>

NoTimer == [armed |-> FALSE, query |-> <<>>]

\* usePageVisibility after its first render: useState([]), useState(1), an
\* empty pageElementsRef; no entry delivered, no ratio reported
NoEntry ==
  [delivered |-> FALSE, page |-> 0, isIntersecting |-> FALSE, intersectionRatio |-> 0]

NoRatio == -1

InitVisibility ==
  /\ visiblePages = <<>>
  /\ activePage = 1
  /\ registered = {}
  /\ lastEntry = NoEntry
  /\ lastRatio = [p \in Pages |-> NoRatio]
  /\ sincePositive = {}

\* extractAllPageTexts not called
NotCalled == [status |-> "notCalled", pageTexts |-> <<>>]

InitExtraction ==
  /\ pdf = <<>>
  /\ extraction = NotCalled

\* usePdfDocument after its first render, before the effect has run
InitialDocument(u) ==
  [numPages |-> 0, url |-> u, loadingState |-> "idle", errorMessage |-> FALSE]

NoProxy == 0

\* no utility function called
NotReturned == [returned |-> FALSE]

InitCall ==
  /\ callArgs = <<>>
  /\ callResult = NotReturned

InitDocument ==
  /\ url = 1
  /\ document = InitialDocument(1)
  /\ pdfProxy = NoProxy
  /\ docPageTexts = <<>>
  /\ loads = {}
  /\ started = 0

(***************************************************************************)
(* Direct calls of search(): the arguments are drawn in the initial state, *)
(* the call computes the returned array.                                   *)
(***************************************************************************)
InitSearch ==
  /\ pageTexts \in PageTextMaps
  /\ argQuery \in Queries
  /\ matches = <<>>
  /\ returned = FALSE
  /\ searchState = InitialSearchState
  /\ closure = InitialSearchState
  /\ timer = NoTimer
  /\ lastOp = "init"
  /\ InitVisibility
  /\ InitExtraction
  /\ InitDocument
  /\ InitCall

CallSearch ==
  /\ ~returned
  /\ matches' = search(argQuery, pageTexts)
  /\ returned' = TRUE
  /\ UNCHANGED <<pageTexts, argQuery>>
  /\ UNCHANGED <<callVars, hookVars, visibilityVars, extractionVars, documentVars>>

NextSearch == CallSearch

SpecSearch == InitSearch /\ [][NextSearch]_vars

(***************************************************************************)
(* useSearch(pageTexts): the hook mounted over a fixed page-text map.      *)
(* Callbacks read the state captured at the last render (closure) and      *)
(* queue updaters, which apply to the latest state (searchState).          *)
(***************************************************************************)
\* page-text maps the hook is mounted over
HookPageTexts ==
  { <<>>,
    (1 :> <<"a", "A", "a">>) @@ (2 :> <<"a">>),
    (1 :> <<>>) @@ (2 :> <<"a", " ", "a">>) }

\* values typed into the search box
TypedQueries == { <<>>, <<" ">>, <<"a">>, <<"a", "a">>, <<"A", " ">> }

\* UseSearchReturn: the states one call of an operation the hook returns can
\* produce from prev, the callbacks having captured snap
UseSearchReturn(prev, snap, texts) ==
  {openSearchUpdate(prev), InitialSearchState,
   performSearchUpdate(prev, snap.query, texts),
   nextMatchUpdate(prev, snap), previousMatchUpdate(prev, snap)}
    \cup {setQueryUpdate(prev, query) : query \in TypedQueries}

Init ==
  /\ pageTexts \in HookPageTexts
  /\ argQuery = <<>>
  /\ matches = <<>>
  /\ returned = FALSE
  /\ searchState = InitialSearchState
  /\ closure = InitialSearchState
  /\ timer = NoTimer
  /\ lastOp = "init"
  /\ InitVisibility
  /\ InitExtraction
  /\ InitDocument
  /\ InitCall

openSearch ==
  /\ searchState' = openSearchUpdate(searchState)
  /\ lastOp' = "openSearch"
  /\ UNCHANGED <<pageTexts, closure, timer>>
  /\ UNCHANGED <<callVars, searchVars, visibilityVars, extractionVars, documentVars>>

closeSearch ==
  /\ searchState' = InitialSearchState
  /\ lastOp' = "closeSearch"
  /\ UNCHANGED <<pageTexts, closure, timer>>
  /\ UNCHANGED <<callVars, searchVars, visibilityVars, extractionVars, documentVars>>

setQuery ==
  \E query \in TypedQueries :
    /\ searchState' = setQueryUpdate(searchState, query)
    /\ lastOp' = "setQuery"
    /\ UNCHANGED <<pageTexts, closure, timer>>
    /\ UNCHANGED <<callVars, searchVars, visibilityVars, extractionVars, documentVars>>

performSearch ==
  /\ searchState' = performSearchUpdate(searchState, closure.query, pageTexts)
  /\ lastOp' = "performSearch"
  /\ UNCHANGED <<pageTexts, closure, timer>>
  /\ UNCHANGED <<callVars, searchVars, visibilityVars, extractionVars, documentVars>>

nextMatch ==
  /\ searchState' = nextMatchUpdate(searchState, closure)
  /\ lastOp' = "nextMatch"
  /\ UNCHANGED <<pageTexts, closure, timer>>
  /\ UNCHANGED <<callVars, searchVars, visibilityVars, extractionVars, documentVars>>

previousMatch ==
  /\ searchState' = previousMatchUpdate(searchState, closure)
  /\ lastOp' = "previousMatch"
  /\ UNCHANGED <<pageTexts, closure, timer>>
  /\ UNCHANGED <<callVars, searchVars, visibilityVars, extractionVars, documentVars>>

\* React re-renders with the latest state: the callbacks are re-created over
\* it, and the debounce effect (deps: query, isOpen, performSearch) cleans up
\* and runs again when one of its dependencies changed.
render ==
  /\ closure # searchState
  /\ closure' = searchState
  /\ timer' = IF closure.query # searchState.query \/ closure.isOpen # searchState.isOpen
              THEN IF searchState.isOpen
                   THEN [armed |-> TRUE, query |-> searchState.query]
                   ELSE NoTimer
              ELSE timer
  /\ lastOp' = "render"
  /\ UNCHANGED <<pageTexts, searchState>>
  /\ UNCHANGED <<callVars, searchVars, visibilityVars, extractionVars, documentVars>>

debounceUpdate_noClear(prev, query, texts) ==
  IF Trim(query) # <<>>
  THEN performSearchUpdate(prev, query, texts)
  ELSE prev

\* the callback of the debounce timer: performSearch() of the render that armed
\* it when the query of that render is not blank, otherwise results: null
debounceUpdate(prev, query, texts) ==
  IF Trim(query) # <<>>
  THEN performSearchUpdate(prev, query, texts)
  ELSE [prev EXCEPT !.results = NullResults]

\* the setTimeout callback of the debounce effect
timerFires ==
  /\ timer.armed
  /\ searchState' = debounceUpdate(searchState, timer.query, pageTexts)
  /\ timer' = NoTimer
  /\ lastOp' = "timer"
  /\ UNCHANGED <<pageTexts, closure>>
  /\ UNCHANGED <<callVars, searchVars, visibilityVars, extractionVars, documentVars>>

Next ==
  \/ openSearch
  \/ closeSearch
  \/ setQuery
  \/ performSearch
  \/ nextMatch
  \/ previousMatch
  \/ render
  \/ timerFires

Spec == Init /\ [][Next]_vars

(***************************************************************************)
(* Properties of search(), checked under SpecSearch.                       *)
(***************************************************************************)
matchesOnPage(p) == SelectSeq(matches, LAMBDA m : m.pageNumber = p)

\* offsets at which the lower-cased text contains the lower-cased query
Occurrences(text, query) ==
  LET lowerText == ToLowerCase(text)
      lowerQuery == ToLowerCase(query)
  IN {i \in 0..(Len(lowerText) - Len(lowerQuery)) :
        SubSeq(lowerText, i + 1, i + Len(lowerQuery)) = lowerQuery}

\* C1: the returned list is sorted by (pageNumber, startOffset) ascending, the
\* element at 0-based position i has globalIndex i, and matchIndexOnPage
\* restarts at 0 on each page and grows by 1 within a page.
C1_Ordering ==
  returned =>
    /\ \A i \in 1..Len(matches) : matches[i].globalIndex = i - 1
    /\ \A i, j \in 1..Len(matches) :
         i < j => \/ matches[i].pageNumber < matches[j].pageNumber
                  \/ /\ matches[i].pageNumber = matches[j].pageNumber
                     /\ matches[i].startOffset <= matches[j].startOffset
    /\ \A i \in 1..Len(matches) :
         IF i = 1 \/ matches[i - 1].pageNumber # matches[i].pageNumber
         THEN matches[i].matchIndexOnPage = 0
         ELSE matches[i].matchIndexOnPage = matches[i - 1].matchIndexOnPage + 1

\* two matches on an earlier page followed by a match on a later page
C1_Witness ==
  /\ returned
  /\ Len(matches) >= 3
  /\ matches[1].pageNumber = matches[2].pageNumber
  /\ matches[Len(matches)].pageNumber > matches[1].pageNumber
  /\ matches[Len(matches)].matchIndexOnPage = 0

\* C5: matches of one call on the same page never overlap: the later one
\* starts at or after the end of the earlier one; "aa" in "aaa" gives exactly
\* one match.
C5_NonOverlap ==
  returned =>
    /\ \A i, j \in 1..Len(matches) :
         (/\ matches[i].pageNumber = matches[j].pageNumber
          /\ matches[i].globalIndex < matches[j].globalIndex)
           => matches[j].startOffset >= matches[i].endOffset
    /\ (argQuery = <<"a", "a">> /\ pageTexts = (1 :> <<"a", "a", "a">>))
         => Len(matches) = 1

\* the query overlaps itself in the text and one match is returned
C5_Witness ==
  /\ returned
  /\ argQuery = <<"a", "a">>
  /\ pageTexts = (1 :> <<"a", "a", "a">>)
  /\ Len(matches) = 1
  /\ matches[1].startOffset = 0

\* leftmost-first non-overlapping scan of every page
LeftmostFirstScan ==
  \A p \in Pages :
    LET ms == matchesOnPage(p)
        occ == IF p \in DOMAIN pageTexts THEN Occurrences(pageTexts[p], argQuery) ELSE {}
    IN /\ occ = {} => ms = <<>>
       /\ occ # {} => (ms # <<>> /\ ms[1].startOffset = Min(occ))
       /\ \A k \in 2..Len(ms) :
            LET later == {i \in occ : i >= ms[k - 1].endOffset}
            IN later # {} /\ ms[k].startOffset = Min(later)
       /\ ms # <<>> => {i \in occ : i >= ms[Len(ms)].endOffset} = {}

\* C6 as stated: for every query the matches are the leftmost-first
\* non-overlapping occurrences of the lower-cased query in the lower-cased
\* text of each page.
C6_AsStated == returned => LeftmostFirstScan

\* C6 amended: the leftmost-first scan is what search() returns for a query
\* that is not empty after trimming; a blank query returns no match.
C6_LeftmostFirst ==
  returned =>
    IF Trim(argQuery) = <<>> THEN matches = <<>> ELSE LeftmostFirstScan

\* a non-blank query with two matches on one page and an occurrence that is
\* skipped because it overlaps the first match
C6_Witness ==
  /\ returned
  /\ Trim(argQuery) # <<>>
  /\ \E p \in DOMAIN pageTexts :
       /\ Len(matchesOnPage(p)) >= 1
       /\ Cardinality(Occurrences(pageTexts[p], argQuery)) > Len(matchesOnPage(p))

\* C7: every match has endOffset = startOffset + length(query) > startOffset,
\* matchedText is the slice [startOffset, endOffset) of the original page
\* text, and matchedText equals the query up to letter case.
C7_MatchedText ==
  returned =>
    \A i \in 1..Len(matches) :
      LET m == matches[i]
      IN /\ m.endOffset = m.startOffset + Len(argQuery)
         /\ m.endOffset > m.startOffset
         /\ m.matchedText = Substring(pageTexts[m.pageNumber], m.startOffset, m.endOffset)
         /\ ToLowerCase(m.matchedText) = ToLowerCase(argQuery)

(***************************************************************************)
(* Properties of the useSearch hook, checked under Spec.                   *)
(***************************************************************************)
results == searchState.results

hasMatches == ~results.isNull /\ Len(results.matches) > 0

\* the callbacks were created by a render of the present results / query
freshResults == closure.results = searchState.results
freshQuery == closure.query = searchState.query

activeMatches(ms) == {i \in 1..Len(ms) : ms[i].isActive}

\* C2: while the state holds a non-empty match list, exactly one match has
\* isActive = true and its globalIndex equals currentMatchIndex.
C2_ActiveMatchIsCurrent ==
  hasMatches =>
    /\ Cardinality(activeMatches(results.matches)) = 1
    /\ \A i \in activeMatches(results.matches) :
         results.matches[i].globalIndex = results.currentMatchIndex

\* C3: whenever results is non-null, totalMatches = length(matches) and
\* currentMatchIndex is -1 for an empty list and a valid index otherwise.
C3_IndexInRange ==
  ~results.isNull =>
    /\ results.totalMatches = Len(results.matches)
    /\ IF Len(results.matches) = 0
       THEN results.currentMatchIndex = -1
       ELSE 0 <= results.currentMatchIndex /\ results.currentMatchIndex < Len(results.matches)

C10_JumpToIndex ==
  (hasMatches /\ closure = searchState) =>
    \A i \in 0..(Len(results.matches) - 1) :
      [searchState EXCEPT !.results.currentMatchIndex = i]
        \in UseSearchReturn(searchState, closure, pageTexts)

\* a step of an operation the hook returns, taken through a callback of the
\* present render where the callback reads captured state
freshCall ==
  lastOp' \in {"performSearch", "nextMatch", "previousMatch"} => closure = searchState

\* C11: closeSearch() yields isOpen = false, query = '', results = null and
\* isSearching = false, and the state stays that way until the next
\* openSearch/setQuery; a debounce timer pending at closeSearch() does not
\* install results afterwards.
C11_CloseIsStable ==
  [][/\ lastOp' = "closeSearch" => searchState' = InitialSearchState
     /\ (/\ searchState = InitialSearchState
         /\ lastOp' \notin {"openSearch", "setQuery"}
         /\ freshCall)
          => searchState' = InitialSearchState]_vars

\* C12 as stated: in the state produced by setQuery('') results is null.
C12_AsStated ==
  (lastOp = "setQuery" /\ searchState.query = <<>>) => results.isNull

\* C12 amended: setQuery() leaves results as they were; results become null
\* when a debounce timer armed for a blank query fires.
C12_ClearedByDebounce ==
  [][/\ lastOp' = "setQuery" => searchState'.results = searchState.results
     /\ (lastOp' = "timer" /\ Trim(timer.query) = <<>>) => searchState'.results.isNull]_vars

\* the timer of the empty query has cleared the results of the last render
C12_Witness ==
  /\ lastOp = "timer"
  /\ searchState.isOpen
  /\ searchState.query = <<>>
  /\ results.isNull
  /\ ~closure.results.isNull

\* C13: whenever isOpen is false, query is '' and results is null.
C13_ClosedIsEmpty ==
  ~searchState.isOpen => (searchState.query = <<>> /\ results.isNull)

\* rendered, and no debounce timer pending
Quiescent == closure = searchState /\ ~timer.armed

\* C14: while the search is open with a non-blank query, once the debounce
\* delay has passed (nothing is left to render and no timer is pending) results
\* is the search of the latest query over the current page texts.
C14_DebounceSettles ==
  (searchState.isOpen /\ Quiescent /\ Trim(searchState.query) # <<>>) =>
    (~results.isNull /\ results.matches = search(searchState.query, pageTexts))

(***************************************************************************)
(* usePageVisibility(): the IntersectionObserver callback, registerPage    *)
(* and unregisterPage.  Ratios are counted in tenths.                      *)
(***************************************************************************)
\* CONFIG.ACTIVE_PAGE_THRESHOLD (0.5), in tenths
ACTIVE_PAGE_THRESHOLD == 5

\* intersectionRatio values an entry reports, in tenths
Ratios == {0, 4, 5, 6}

\* observed elements by their data-page-number; 0 is an element without one
Elements == 0..NumPages

\* entries the observer delivers: an intersecting entry has any ratio (0 for
\* an edge-adjacent target), a non-intersecting entry has ratio 0
Entries ==
  [delivered : {TRUE}, page : Elements, isIntersecting : {TRUE}, intersectionRatio : Ratios]
    \cup
  [delivered : {TRUE}, page : Elements, isIntersecting : {FALSE}, intersectionRatio : {0}]

\* Array.prototype.includes
Includes(arr, x) == \E i \in 1..Len(arr) : arr[i] = x

\* insertion of x into an ascending array, after the elements equal to it
RECURSIVE InsertAscending(_, _)
InsertAscending(arr, x) ==
  IF arr = <<>> THEN <<x>>
  ELSE IF x < Head(arr) THEN <<x>> \o arr
  ELSE <<Head(arr)>> \o InsertAscending(Tail(arr), x)

\* Array.prototype.sort((a, b) => a - b)
RECURSIVE sortNumeric(_)
sortNumeric(arr) ==
  IF arr = <<>> THEN <<>>
  ELSE InsertAscending(sortNumeric(SubSeq(arr, 1, Len(arr) - 1)), arr[Len(arr)])

setVisiblePages_noSort(prev, entry) ==
  IF entry.isIntersecting
  THEN IF Includes(prev, entry.page) THEN prev ELSE Append(prev, entry.page)
  ELSE SelectSeq(prev, LAMBDA q : q # entry.page)

\* the updaters handed to setVisiblePages for one entry
setVisiblePages(prev, entry) ==
  IF entry.isIntersecting
  THEN IF Includes(prev, entry.page) THEN prev ELSE sortNumeric(Append(prev, entry.page))
  ELSE SelectSeq(prev, LAMBDA q : q # entry.page)

setActivePage_noThreshold(prev, entry) ==
  IF entry.isIntersecting THEN entry.page ELSE prev

\* setActivePage(pageNumber) for an intersecting entry at or above the threshold
setActivePage(prev, entry) ==
  IF entry.isIntersecting /\ entry.intersectionRatio >= ACTIVE_PAGE_THRESHOLD
  THEN entry.page
  ELSE prev

\* one entry through the observer callback.  entries.forEach handles the
\* entries of a delivery one by one, each through these updaters, so a
\* delivery of n entries acts as n deliveries of one entry.
observerCallback ==
  \E entry \in Entries :
    /\ entry.page \in registered
    /\ IF entry.page = 0
       THEN UNCHANGED <<visiblePages, activePage, lastRatio, sincePositive>>
       ELSE /\ visiblePages' = setVisiblePages(visiblePages, entry)
            /\ activePage' = setActivePage(activePage, entry)
            /\ lastRatio' = [lastRatio EXCEPT ![entry.page] =
                               IF entry.isIntersecting THEN entry.intersectionRatio
                               ELSE NoRatio]
            /\ sincePositive' =
                 IF ~entry.isIntersecting THEN sincePositive \ {entry.page}
                 ELSE IF entry.intersectionRatio > 0 THEN sincePositive \cup {entry.page}
                 ELSE sincePositive
    /\ lastEntry' = entry
    /\ UNCHANGED registered
    /\ UNCHANGED <<callVars, pageTexts, searchVars, hookVars, extractionVars, documentVars>>

registerPage ==
  \E pageNumber \in Elements :
    /\ pageNumber \notin registered
    /\ registered' = registered \cup {pageNumber}
    /\ lastEntry' = NoEntry
    /\ UNCHANGED <<visiblePages, activePage, lastRatio, sincePositive>>
    /\ UNCHANGED <<callVars, pageTexts, searchVars, hookVars, extractionVars, documentVars>>

unregisterPage ==
  \E pageNumber \in Elements :
    /\ pageNumber \in registered
    /\ registered' = registered \ {pageNumber}
    /\ lastEntry' = NoEntry
    /\ UNCHANGED <<visiblePages, activePage, lastRatio, sincePositive>>
    /\ UNCHANGED <<callVars, pageTexts, searchVars, hookVars, extractionVars, documentVars>>

InitPageVisibility ==
  /\ pageTexts = <<>>
  /\ argQuery = <<>>
  /\ matches = <<>>
  /\ returned = FALSE
  /\ searchState = InitialSearchState
  /\ closure = InitialSearchState
  /\ timer = NoTimer
  /\ lastOp = "init"
  /\ InitVisibility
  /\ InitExtraction
  /\ InitDocument
  /\ InitCall

NextPageVisibility ==
  \/ observerCallback
  \/ registerPage
  \/ unregisterPage

SpecPageVisibility == InitPageVisibility /\ [][NextPageVisibility]_vars

(***************************************************************************)
(* Claims about usePageVisibility                                          *)
(***************************************************************************)
visibleSet == {visiblePages[i] : i \in 1..Len(visiblePages)}

\* p has the highest latest ratio among the pages of the array vis
HighestRatio(vis, ratios, p) ==
  \A i \in 1..Len(vis) : ratios[vis[i]] <= ratios[p]

C16_MostVisible ==
  [][activePage' # activePage =>
       /\ Includes(visiblePages', activePage')
       /\ lastRatio'[activePage'] >= ACTIVE_PAGE_THRESHOLD
       /\ HighestRatio(visiblePages', lastRatio', activePage')]_vars

\* C17: whenever visiblePages is non-empty, activePage is one of its elements.
C17_ActiveIsVisible ==
  visiblePages # <<>> => activePage \in visibleSet

StrictlyAscending(arr) ==
  \A i \in 1..Len(arr) - 1 : arr[i] < arr[i + 1]

MaxPdfPages == 3

\* a TextItem with its str, and a TextMarkedContent item, which has no str
TextItem(str) == [hasStr |-> TRUE, str |-> str]
MarkedContent == [hasStr |-> FALSE, str |-> <<>>]

PdfPages ==
  { [getPage |-> "rejects", getTextContent |-> "resolves", items |-> <<>>],
    [getPage |-> "resolves", getTextContent |-> "rejects", items |-> <<>>],
    [getPage |-> "resolves", getTextContent |-> "resolves", items |-> <<>>],
    [getPage |-> "resolves", getTextContent |-> "resolves",
     items |-> <<TextItem(<<"a">>)>>],
    [getPage |-> "resolves", getTextContent |-> "resolves",
     items |-> <<TextItem(<<"a">>), MarkedContent, TextItem(<<"A">>)>>] }

PdfDocuments == UNION {[1..n -> PdfPages] : n \in 0..MaxPdfPages}

\* Array.prototype.join(' ')
RECURSIVE JoinWithSpace(_)
JoinWithSpace(strs) ==
  IF strs = <<>> THEN <<>>
  ELSE IF Len(strs) = 1 THEN strs[1]
  ELSE strs[1] \o <<" ">> \o JoinWithSpace(Tail(strs))

\* items.map(item => 'str' in item ? item.str : '')
ItemStrs(items) ==
  [i \in 1..Len(items) |-> IF items[i].hasStr THEN items[i].str ELSE <<>>]

\* extractPageText(page): the catch turns a rejected getTextContent into ''
extractPageText(page) ==
  IF page.getTextContent = "rejects"
  THEN <<>>
  ELSE JoinWithSpace(ItemStrs(page.items))

setPageText_dropFailed(acc, pageNum, page) ==
  IF page.getPage = "rejects"
  THEN acc
  ELSE acc @@ (pageNum :> extractPageText(page))

\* the body of the loop over pageNum: pageTexts.set(pageNum, text), and
\* pageTexts.set(pageNum, '') in the catch of a rejected getPage
setPageText(acc, pageNum, page) ==
  IF page.getPage = "rejects"
  THEN acc @@ (pageNum :> <<>>)
  ELSE acc @@ (pageNum :> extractPageText(page))

\* for (pageNum = from; pageNum <= pdf.numPages; pageNum++)
RECURSIVE pageLoop(_, _, _)
pageLoop(doc, pageNum, acc) ==
  IF pageNum > Len(doc)
  THEN acc
  ELSE pageLoop(doc, pageNum + 1, setPageText(acc, pageNum, doc[pageNum]))

\* every rejection is caught inside the loop, so the call returns its map
extractAllPageTexts(doc) ==
  [status |-> "returned", pageTexts |-> pageLoop(doc, 1, <<>>)]

InitExtract ==
  /\ pageTexts = <<>>
  /\ argQuery = <<>>
  /\ matches = <<>>
  /\ returned = FALSE
  /\ searchState = InitialSearchState
  /\ closure = InitialSearchState
  /\ timer = NoTimer
  /\ lastOp = "init"
  /\ InitVisibility
  /\ pdf \in PdfDocuments
  /\ extraction = NotCalled
  /\ InitDocument
  /\ InitCall

CallExtractAllPageTexts ==
  /\ extraction = NotCalled
  /\ extraction' = extractAllPageTexts(pdf)
  /\ UNCHANGED pdf
  /\ UNCHANGED <<callVars, pageTexts, searchVars, hookVars, visibilityVars, documentVars>>

NextExtract == CallExtractAllPageTexts

SpecExtract == InitExtract /\ [][NextExtract]_vars

\* the page fetch or the text extraction of page p fails
PageFails(p) ==
  pdf[p].getPage = "rejects" \/ pdf[p].getTextContent = "rejects"

\* C19: extractAllPageTexts returns (it does not raise) a map whose key set
\* is exactly 1..numPages; a page whose fetch or text extraction fails is
\* mapped to '', and every other page, also one after a failed page, to the
\* strs of its items joined by ' '.
C19_ExtractAll ==
  /\ extraction.status \in {"notCalled", "returned"}
  /\ extraction.status = "returned" =>
       /\ DOMAIN extraction.pageTexts = 1..Len(pdf)
       /\ \A p \in 1..Len(pdf) :
            extraction.pageTexts[p] =
              IF PageFails(p) THEN <<>> ELSE JoinWithSpace(ItemStrs(pdf[p].items))

\* a rejected getPage, then a rejected getTextContent, then a page with text
C19_Witness ==
  /\ extraction.status = "returned"
  /\ Len(pdf) = 3
  /\ pdf[1].getPage = "rejects"
  /\ pdf[2].getTextContent = "rejects"
  /\ extraction.pageTexts[3] = <<"a", " ", " ", "A">>

(***************************************************************************)
(* usePdfDocument(url): loadPdf() run by the effect on [url], the          *)
(* continuations of its awaits, and reload().                              *)
(***************************************************************************)
NumUrls == 2
MaxLoads == 3

Urls == 1..NumUrls

\* the document behind url u: u pages, the second one failing to be fetched
PdfOf(u) ==
  [p \in 1..u |->
     IF p = 2
     THEN [getPage |-> "rejects", getTextContent |-> "resolves", items |-> <<>>]
     ELSE [getPage |-> "resolves", getTextContent |-> "resolves",
           items |-> <<TextItem(<<"a">>)>>]]

\* a loadPdf() call awaiting loadPdfDocument(url), or past it and awaiting
\* the background extractAllPageTexts(pdf)
Load(id, u, stage) == [id |-> id, url |-> u, stage |-> stage]

\* loadPdf() up to its first await: setDocument(prev => ({...prev, 'loading'}))
startLoad(u) ==
  /\ document' = [document EXCEPT !.loadingState = "loading"]
  /\ loads' = loads \cup {Load(started + 1, u, "loading")}
  /\ started' = started + 1
  /\ UNCHANGED <<pdfProxy, docPageTexts>>

\* the effect after the first render
mountEffect ==
  /\ started = 0
  /\ startLoad(url)
  /\ UNCHANGED url
  /\ UNCHANGED <<callVars, pageTexts, searchVars, hookVars, visibilityVars, extractionVars>>

\* a render with another url, and the effect it triggers
urlChanges ==
  \E u \in Urls \ {url} :
    /\ started > 0
    /\ started < MaxLoads
    /\ url' = u
    /\ startLoad(u)
    /\ UNCHANGED <<callVars, pageTexts, searchVars, hookVars, visibilityVars, extractionVars>>

\* loadPdfDocument(url) resolves: setPdfProxy, setDocument('loaded'), and the
\* extraction starts in the background
loadResolves ==
  \E load \in loads :
    /\ load.stage = "loading"
    /\ pdfProxy' = load.id
    /\ document' = [numPages |-> Len(PdfOf(load.url)), url |-> load.url,
                    loadingState |-> "loaded", errorMessage |-> FALSE]
    /\ loads' = (loads \ {load}) \cup {Load(load.id, load.url, "extracting")}
    /\ UNCHANGED <<url, docPageTexts, started>>
    /\ UNCHANGED <<callVars, pageTexts, searchVars, hookVars, visibilityVars, extractionVars>>

\* loadPdfDocument(url) rejects: the catch of loadPdf
loadRejects ==
  \E load \in loads :
    /\ load.stage = "loading"
    /\ document' = [document EXCEPT !.loadingState = "error", !.errorMessage = TRUE]
    /\ loads' = loads \ {load}
    /\ UNCHANGED <<url, pdfProxy, docPageTexts, started>>
    /\ UNCHANGED <<callVars, pageTexts, searchVars, hookVars, visibilityVars, extractionVars>>

\* extractAllPageTexts(pdf) resolves: setPageTexts(texts)
extractionResolves ==
  \E load \in loads :
    /\ load.stage = "extracting"
    /\ docPageTexts' = extractAllPageTexts(PdfOf(load.url)).pageTexts
    /\ loads' = loads \ {load}
    /\ UNCHANGED <<url, document, pdfProxy, started>>
    /\ UNCHANGED <<callVars, pageTexts, searchVars, hookVars, visibilityVars, extractionVars>>

reload ==
  /\ started > 0
  /\ document' = InitialDocument(url)
  /\ pdfProxy' = NoProxy
  /\ docPageTexts' = <<>>
  /\ UNCHANGED <<url, loads, started>>
  /\ UNCHANGED <<callVars, pageTexts, searchVars, hookVars, visibilityVars, extractionVars>>

InitPdfDocument ==
  /\ pageTexts = <<>>
  /\ argQuery = <<>>
  /\ matches = <<>>
  /\ returned = FALSE
  /\ searchState = InitialSearchState
  /\ closure = InitialSearchState
  /\ timer = NoTimer
  /\ lastOp = "init"
  /\ InitVisibility
  /\ InitExtraction
  /\ InitDocument
  /\ InitCall

NextPdfDocument ==
  \/ mountEffect
  \/ urlChanges
  \/ loadResolves
  \/ loadRejects
  \/ extractionResolves
  \/ reload

SpecPdfDocument == InitPdfDocument /\ [][NextPdfDocument]_vars

\* C20: whenever loadingState is 'loaded', pageTexts has exactly numPages
\* entries, with keys 1..numPages.
C20_LoadedHasTexts ==
  document.loadingState = "loaded" => DOMAIN docPageTexts = 1..document.numPages

\* C21: reload() invoked in loadingState 'error' starts a new load attempt:
\* the state it produces is 'loading' with a loadPdf() call in flight, not a
\* resting 'idle'.
C21_RetryStartsLoad ==
  [][(document.loadingState = "error" /\ reload) =>
       /\ document'.loadingState = "loading"
       /\ \E load \in loads' : load.stage = "loading"]_vars

(***************************************************************************)
(* highlightMatches(text, matches, activeMatchId).  The returned HTML      *)
(* string is the sequence of its parts: a code unit of the text, the       *)
(* entity escapeHtml writes for a code unit, an opening <mark ...> tag     *)
(* with its class and data-match-id, and the closing </mark> tag.          *)
(***************************************************************************)
HighlightChars == {"a", "<", "&", "Idot"}

RECURSIVE StringsOver(_, _)
StringsOver(alphabet, n) ==
  IF n = 0 THEN {<<>>}
  ELSE LET shorter == StringsOver(alphabet, n - 1)
       IN shorter \cup
          {Append(s, c) : s \in {t \in shorter : Len(t) = n - 1}, c \in alphabet}

Unit(c) == [kind |-> "unit", unit |-> c, className |-> "", id |-> <<>>]
Entity(c) == [kind |-> "entity", unit |-> c, className |-> "", id |-> <<>>]
Mark(className, id) == [kind |-> "mark", unit |-> "", className |-> className, id |-> id]
EndMark == [kind |-> "endmark", unit |-> "", className |-> "", id |-> <<>>]

\* the string itself, code unit by code unit
Verbatim(text) == [i \in 1..Len(text) |-> Unit(text[i])]

\* div.textContent = text; div.innerHTML: '<', '>' and '&' become entities
escapeHtml(text) ==
  [i \in 1..Len(text) |->
     IF text[i] \in {"<", ">", "&"} THEN Entity(text[i]) ELSE Unit(text[i])]

\* insertion of match m into an array ordered by startOffset, after its equals
RECURSIVE InsertByStartOffset(_, _)
InsertByStartOffset(arr, m) ==
  IF arr = <<>> THEN <<m>>
  ELSE IF m.startOffset < Head(arr).startOffset THEN <<m>> \o arr
  ELSE <<Head(arr)>> \o InsertByStartOffset(Tail(arr), m)

\* [...matches].sort((a, b) => a.startOffset - b.startOffset)
RECURSIVE sortByStartOffset(_)
sortByStartOffset(arr) ==
  IF arr = <<>> THEN <<>>
  ELSE InsertByStartOffset(sortByStartOffset(SubSeq(arr, 1, Len(arr) - 1)), arr[Len(arr)])

\* null as activeMatchId
NullId == <<>>

className(match, activeMatchId) ==
  IF match.id = activeMatchId THEN "bg-yellow-200" ELSE "bg-yellow-100"

\* the for loop over sortedMatches followed by the remaining text
RECURSIVE highlightFrom(_, _, _, _)
highlightFrom(text, sortedMatches, activeMatchId, lastIndex) ==
  IF sortedMatches = <<>>
  THEN escapeHtml(Substring(text, lastIndex, Len(text)))
  ELSE LET match == Head(sortedMatches)
       IN escapeHtml(Substring(text, lastIndex, match.startOffset))
          \o <<Mark(className(match, activeMatchId), match.id)>>
          \o escapeHtml(match.matchedText)
          \o <<EndMark>>
          \o highlightFrom(text, Tail(sortedMatches), activeMatchId, match.endOffset)

highlightMatches(text, matchList, activeMatchId) ==
  IF Len(matchList) = 0
  THEN Verbatim(text)
  ELSE highlightFrom(text, sortByStartOffset(matchList), activeMatchId, 0)

\* the sub-arrays of an array, order kept
RECURSIVE SubArrays(_)
SubArrays(arr) ==
  IF arr = <<>> THEN {<<>>}
  ELSE LET rest == SubArrays(Tail(arr))
       IN rest \cup {<<Head(arr)>> \o r : r \in rest}

\* calls of highlightMatches: a text, some of the matches search() finds in
\* it for a query, and the id of one of the matches found, or null
HighlightCalls ==
  UNION {
    LET found == search(query, 1 :> text)
    IN [text : {text}, query : {query}, found : {found},
        matches : SubArrays(found),
        activeMatchId : {NullId} \cup {found[i].id : i \in 1..Len(found)}]
    : text \in StringsOver(HighlightChars, MaxTotalLen),
      query \in StringsOver(HighlightChars, MaxQueryLen)}

InitHighlight ==
  /\ pageTexts = <<>>
  /\ argQuery = <<>>
  /\ matches = <<>>
  /\ returned = FALSE
  /\ searchState = InitialSearchState
  /\ closure = InitialSearchState
  /\ timer = NoTimer
  /\ lastOp = "init"
  /\ InitVisibility
  /\ InitExtraction
  /\ InitDocument
  /\ callArgs \in HighlightCalls
  /\ callResult = NotReturned

CallHighlightMatches ==
  /\ ~callResult.returned
  /\ callResult' =
       [returned |-> TRUE,
        html |-> highlightMatches(callArgs.text, callArgs.matches, callArgs.activeMatchId)]
  /\ UNCHANGED callArgs
  /\ UNCHANGED <<pageTexts, searchVars, hookVars, visibilityVars, extractionVars, documentVars>>

NextHighlight == CallHighlightMatches

SpecHighlight == InitHighlight /\ [][NextHighlight]_vars

\* C22: every code unit of the text that highlightMatches emits is escaped:
\* the output holds no '<', '>' or '&' copied as it stands from the text.
C22_Escaped ==
  callResult.returned =>
    \A i \in 1..Len(callResult.html) :
      callResult.html[i].kind = "unit" => callResult.html[i].unit \notin {"<", ">", "&"}

\* the opening tags of an HTML string, in order
Marks(html) == SelectSeq(html, LAMBDA part : part.kind = "mark")

\* the HTML string without its opening and closing tags
WithoutMarks(html) == SelectSeq(html, LAMBDA part : part.kind \in {"unit", "entity"})

\* highlightMatches was called with all the matches search() found
AllMatchesGiven == callResult.returned /\ callArgs.matches = callArgs.found

\* C23: over the matches search() produced for the text, highlightMatches
\* emits one marker per match in ascending startOffset order, the marker is
\* active exactly for the match whose id is activeMatchId, and the output
\* without its markers is the escaped text.
C23_OneMarkerPerMatch ==
  AllMatchesGiven =>
    LET marks == Marks(callResult.html)
        found == callArgs.found
    IN /\ Len(marks) = Len(found)
       /\ \A i \in 1..Len(found) :
            /\ marks[i].id = found[i].id
            /\ marks[i].className = "bg-yellow-200" <=> found[i].id = callArgs.activeMatchId
       /\ \A i \in 1..Len(found) - 1 : found[i].startOffset < found[i + 1].startOffset
       /\ WithoutMarks(callResult.html) = escapeHtml(callArgs.text)

(***************************************************************************)
(* The table of contents: getSectionForPage(pageNumber), the section       *)
(* configuration with its validation, and the entry the sidebar marks as   *)
(* active.                                                                 *)
(***************************************************************************)
MaxPageNumber == 80

Item(title, page) == [title |-> title, page |-> page]

tableOfContents ==
  << Item("MESSAGE FROM OUR POLITICAL LEADER", 4),
     Item("THE VISION", 10),
     Item("A RECOVERY PROGRAMME", 12),
     Item("OUR TEAM", 14),
     Item("THE TRANSFORMATIVE AGENDA", 16),
     Item("TRANSFORMING OUR AGRICULTURE AND FISHERIES SECTOR", 23),
     Item("REVITALIZING THE TOURISM SECTOR", 26),
     Item("BUILDING A VIBRANT DIGITAL ECONOMY", 32),
     Item("INVESTMENT, TRADE AND EXTERNAL RELATIONS", 38),
     Item("INFRASTRUCTURE AND PORT DEVELOPMENT", 45),
     Item("SECURING OUR ENERGY FUTURE THROUGH RENEWABLES", 50),
     Item("GOVERNANCE AND LOCAL GOVERNMENT REFORM", 60) >>

\* the pageNumber fields of MANIFESTO_SECTIONS
MANIFESTO_SECTIONS == <<4, 10, 12, 14, 16, 23, 26, 32, 38, 45, 50, 60>>

\* validateSections(sections) returns without throwing
validateSections(sections) ==
  /\ Len(sections) = 12
  /\ \A i \in 2..Len(sections) : ~(sections[i] <= sections[i - 1])

\* string | null
NullSection == [isNull |-> TRUE, title |-> ""]
Section(title) == [isNull |-> FALSE, title |-> title]

inSection_noUpperBound(pageNumber, i) ==
  pageNumber >= tableOfContents[i].page

\* the condition of the loop body; index i counts from 1
inSection(pageNumber, i) ==
  /\ pageNumber >= tableOfContents[i].page
  /\ (i + 1 > Len(tableOfContents) \/ pageNumber < tableOfContents[i + 1].page)

\* the for loop from index i on, left by break at the first hit
RECURSIVE sectionFrom(_, _)
sectionFrom(pageNumber, i) ==
  IF i > Len(tableOfContents) THEN NullSection
  ELSE IF inSection(pageNumber, i) THEN Section(tableOfContents[i].title)
  ELSE sectionFrom(pageNumber, i + 1)

getSectionForPage(pageNumber) == sectionFrom(pageNumber, 1)

\* the entries of the sidebar's table of contents drawn in the active style
activeEntries(page) ==
  {i \in 1..Len(tableOfContents) : page = tableOfContents[i].page}

SectionCalls ==
  [fn : {"getSectionForPage", "Context"}, pageNumber : 0..MaxPageNumber]

InitSections ==
  /\ pageTexts = <<>>
  /\ argQuery = <<>>
  /\ matches = <<>>
  /\ returned = FALSE
  /\ searchState = InitialSearchState
  /\ closure = InitialSearchState
  /\ timer = NoTimer
  /\ lastOp = "init"
  /\ InitVisibility
  /\ InitExtraction
  /\ InitDocument
  /\ callArgs \in SectionCalls
  /\ callResult = NotReturned

CallGetSectionForPage ==
  /\ ~callResult.returned
  /\ callArgs.fn = "getSectionForPage"
  /\ callResult' = [returned |-> TRUE, section |-> getSectionForPage(callArgs.pageNumber)]
  /\ UNCHANGED callArgs
  /\ UNCHANGED <<pageTexts, searchVars, hookVars, visibilityVars, extractionVars, documentVars>>

\* Context rendered with activePage = callArgs.pageNumber
RenderContext ==
  /\ ~callResult.returned
  /\ callArgs.fn = "Context"
  /\ callResult' = [returned |-> TRUE, active |-> activeEntries(callArgs.pageNumber)]
  /\ UNCHANGED callArgs
  /\ UNCHANGED <<pageTexts, searchVars, hookVars, visibilityVars, extractionVars, documentVars>>

NextSections ==
  \/ CallGetSectionForPage
  \/ RenderContext

SpecSections == InitSections /\ [][NextSections]_vars

\* the entries whose range [entry.page, nextEntry.page) holds page p; the
\* last entry is unbounded above
EntriesHolding(p) ==
  {i \in 1..Len(tableOfContents) :
     /\ tableOfContents[i].page <= p
     /\ \A j \in 1..Len(tableOfContents) :
          tableOfContents[j].page > tableOfContents[i].page => p < tableOfContents[j].page}

\* C24: getSectionForPage(p) is the title of the one section whose range
\* holds p, and null when p is below the first section's start page; the
\* configured start pages are strictly increasing.
C24_SectionForPage ==
  /\ validateSections(MANIFESTO_SECTIONS)
  /\ \A i \in 1..Len(tableOfContents) - 1 :
       tableOfContents[i].page < tableOfContents[i + 1].page
  /\ (callResult.returned /\ callArgs.fn = "getSectionForPage") =>
       LET p == callArgs.pageNumber
       IN IF p < tableOfContents[1].page
          THEN callResult.section = NullSection
          ELSE /\ Cardinality(EntriesHolding(p)) = 1
               /\ \A i \in EntriesHolding(p) :
                    callResult.section = Section(tableOfContents[i].title)

\* page 22, the last page of a section, within the section that starts at 16
C24_Witness ==
  /\ callResult.returned
  /\ callArgs.fn = "getSectionForPage"
  /\ callArgs.pageNumber = 22
  /\ callResult.section = Section("THE TRANSFORMATIVE AGENDA")

\* C25: the sidebar marks an entry as active exactly when activePage lies in
\* [entry.page, nextEntry.page).
C25_ActiveEntry ==
  (callResult.returned /\ callArgs.fn = "Context") =>
    callResult.active = EntriesHolding(callArgs.pageNumber)

\* C26: whenever results is non-null, results.matches is the search of
\* results.query over the page texts: the query recorded in the results is
\* the query that was matched.
C26_RecordedQuery ==
  ~results.isNull => results.matches = search(results.query, pageTexts)

\* C27: the late completion of an older load does not overwrite the newer
\* state: a text extraction that resolves when pdfProxy is no longer its own
\* document (reload() has cleared it, or a newer load has replaced it) leaves
\* pageTexts alone, and a loadPdfDocument call that settles after a newer
\* loadPdf() call was made leaves document and pdfProxy alone.
C27_NoLateOverwrite ==
  [][\A load \in loads :
       /\ (load.stage = "extracting" /\ load \notin loads' /\ pdfProxy # load.id) =>
            docPageTexts' = docPageTexts
       /\ (load.stage = "loading" /\ load \notin loads' /\ load.id < started) =>
            (document' = document /\ pdfProxy' = pdfProxy)]_vars

\* C29: every page in visiblePages is a currently registered page.
C29_VisibleIsRegistered ==
  visibleSet \subseteq registered

(***************************************************************************)
(* SidebarSearch.handleSearch(value) over the pageTexts map the component  *)
(* receives from usePdfDocument.                                           *)
(***************************************************************************)
\* String.prototype.includes
StringIncludes(s, searchString) == IndexOf(s, searchString, 0) # -1

\* the keys of a map in insertion order: extractAllPageTexts, the only
\* producer of the map, sets pageNum = 1, 2, ... in this order
keysInInsertionOrder(texts) == [i \in 1..Len(texts) |-> i]

pageMatches_caseSensitive(text, value) == StringIncludes(text, value)

\* text.toLowerCase().includes(lowerQuery)
pageMatches(text, value) == StringIncludes(ToLowerCase(text), ToLowerCase(value))

\* pageTexts.forEach((text, pageNumber) => ... results.push(pageNumber))
RECURSIVE pushMatchingPages(_, _, _)
pushMatchingPages(texts, keys, value) ==
  IF keys = <<>> THEN <<>>
  ELSE (IF pageMatches(texts[Head(keys)], value) THEN <<Head(keys)>> ELSE <<>>)
       \o pushMatchingPages(texts, Tail(keys), value)

\* the array handed to setSearchResults
handleSearch(value, texts) ==
  IF Trim(value) = <<>> THEN <<>>
  ELSE pushMatchingPages(texts, keysInInsertionOrder(texts), value)

\* maps as extractAllPageTexts returns them: keys 1..n
ExtractedPageTexts == UNION {MapsWithin(1..n, MaxTotalLen) : n \in 0..NumPages}

InitSidebarSearch ==
  /\ pageTexts = <<>>
  /\ argQuery = <<>>
  /\ matches = <<>>
  /\ returned = FALSE
  /\ searchState = InitialSearchState
  /\ closure = InitialSearchState
  /\ timer = NoTimer
  /\ lastOp = "init"
  /\ InitVisibility
  /\ InitExtraction
  /\ InitDocument
  /\ callArgs \in [value : Queries, pageTexts : ExtractedPageTexts]
  /\ callResult = NotReturned

CallHandleSearch ==
  /\ ~callResult.returned
  /\ callResult' = [returned |-> TRUE,
                    searchResults |-> handleSearch(callArgs.value, callArgs.pageTexts)]
  /\ UNCHANGED callArgs
  /\ UNCHANGED <<pageTexts, searchVars, hookVars, visibilityVars, extractionVars, documentVars>>

NextSidebarSearch == CallHandleSearch

SpecSidebarSearch == InitSidebarSearch /\ [][NextSidebarSearch]_vars

\* the distinct pageNumbers of an array of matches
pagesOf(found) == {found[i].pageNumber : i \in 1..Len(found)}

SnippetChars == {"a", "A", " ", "LF", "CR"}

\* the default value of maxLength
DefaultMaxLength == 80

\* text.split(/\r?\n/): current is the line being read
RECURSIVE splitLines(_, _)
splitLines(text, current) ==
  IF text = <<>> THEN <<current>>
  ELSE IF Head(text) = "LF" THEN <<current>> \o splitLines(Tail(text), <<>>)
  ELSE IF Head(text) = "CR" /\ Len(text) >= 2 /\ text[2] = "LF"
       THEN <<current>> \o splitLines(Tail(Tail(text)), <<>>)
  ELSE splitLines(Tail(text), Append(current, Head(text)))

\* the loop over lines: the first line whose range holds matchIndex, trimmed,
\* and the offset of the match from the start of the untrimmed line
RECURSIVE findMatchLine(_, _, _)
findMatchLine(lines, matchIndex, currentPos) ==
  IF lines = <<>> THEN [matchLine |-> <<>>, lineMatchIndex |-> -1]
  ELSE LET lineEnd == currentPos + Len(Head(lines))
       IN IF matchIndex >= currentPos /\ matchIndex < lineEnd
          THEN [matchLine |-> Trim(Head(lines)), lineMatchIndex |-> matchIndex - currentPos]
          ELSE findMatchLine(Tail(lines), matchIndex, lineEnd + 1)

\* matchLine[i], undefined outside the string
CharAt(s, i) == IF i >= 0 /\ i < Len(s) THEN s[i + 1] ELSE "undefined"

\* the while loop that moves start back to the start of a word
RECURSIVE wordStart(_, _, _)
wordStart(matchLine, start, limit) ==
  IF start > 0 /\ CharAt(matchLine, start - 1) # " " /\ start > limit
  THEN wordStart(matchLine, start - 1, limit)
  ELSE start

\* the branch for a line longer than maxLength
truncateAround(matchLine, lineMatchIndex, query, maxLength) ==
  LET halfLength == (maxLength - Len(query)) \div 2
      start0 == IF 0 >= lineMatchIndex - halfLength THEN 0 ELSE lineMatchIndex - halfLength
      end0 == IF Len(matchLine) <= lineMatchIndex + Len(query) + halfLength
              THEN Len(matchLine) ELSE lineMatchIndex + Len(query) + halfLength
      end == IF start0 = 0
             THEN (IF Len(matchLine) <= maxLength THEN Len(matchLine) ELSE maxLength)
             ELSE end0
      start1 == IF start0 # 0 /\ end0 = Len(matchLine)
                THEN (IF 0 >= Len(matchLine) - maxLength THEN 0 ELSE Len(matchLine) - maxLength)
                ELSE start0
      start2 == IF start1 > 0
                THEN wordStart(matchLine, start1, lineMatchIndex - halfLength - 10)
                ELSE start1
      start == IF start1 > 0 /\ CharAt(matchLine, start2) = " " THEN start2 + 1 ELSE start2
      body == Substring(matchLine, start, end)
      prefixed == IF start > 0 THEN <<".", ".", ".">> \o body ELSE body
      snippet == IF end < Len(matchLine) THEN prefixed \o <<".", ".", ".">> ELSE prefixed
  IN [snippet |-> snippet,
      matchIndex |-> lineMatchIndex - start + (IF start > 0 THEN 3 ELSE 0)]

getMatchedSnippet(text, query, maxLength) ==
  LET matchIndex == IndexOf(ToLowerCase(text), ToLowerCase(query), 0)
      line == findMatchLine(splitLines(text, <<>>), matchIndex, 0)
  IN IF matchIndex = -1 THEN [snippet |-> <<>>, matchIndex |-> -1]
     ELSE IF line.matchLine = <<>> THEN [snippet |-> <<>>, matchIndex |-> -1]
     ELSE IF Len(line.matchLine) > maxLength
          THEN truncateAround(line.matchLine, line.lineMatchIndex, query, maxLength)
     ELSE [snippet |-> line.matchLine, matchIndex |-> line.lineMatchIndex]

\* calls as SidebarSearch makes them: a page text and the non-blank query
SnippetCalls ==
  [text : StringsOver(SnippetChars, MaxTotalLen),
   query : {q \in StringsOver(SnippetChars, MaxQueryLen) : Trim(q) # <<>>}]

InitSnippet ==
  /\ pageTexts = <<>>
  /\ argQuery = <<>>
  /\ matches = <<>>
  /\ returned = FALSE
  /\ searchState = InitialSearchState
  /\ closure = InitialSearchState
  /\ timer = NoTimer
  /\ lastOp = "init"
  /\ InitVisibility
  /\ InitExtraction
  /\ InitDocument
  /\ callArgs \in SnippetCalls
  /\ callResult = NotReturned

CallGetMatchedSnippet ==
  /\ ~callResult.returned
  /\ callResult' =
       LET r == getMatchedSnippet(callArgs.text, callArgs.query, DefaultMaxLength)
       IN [returned |-> TRUE, snippet |-> r.snippet, matchIndex |-> r.matchIndex]
  /\ UNCHANGED callArgs
  /\ UNCHANGED <<pageTexts, searchVars, hookVars, visibilityVars, extractionVars, documentVars>>

NextSnippet == CallGetMatchedSnippet

SpecSnippet == InitSnippet /\ [][NextSnippet]_vars

\* C30: for a page text that contains the query case-insensitively,
\* getMatchedSnippet returns matchIndex >= 0 and the part of the snippet at
\* matchIndex of the query's length is the query, case aside.
C30_SnippetHoldsMatch ==
  (/\ callResult.returned
   /\ StringIncludes(ToLowerCase(callArgs.text), ToLowerCase(callArgs.query))) =>
    /\ callResult.matchIndex >= 0
    /\ ToLowerCase(Substring(callResult.snippet, callResult.matchIndex,
                             callResult.matchIndex + Len(callArgs.query)))
         = ToLowerCase(callArgs.query)

=============================================================================
